---- MODULE Spec2Model ----
(***************************************************************************)
(* Trophic levels, trophic differences and trophic coherence of a directed *)
(* weighted graph (networkx/algorithms/centrality/trophic.py).             *)
(*                                                                         *)
(* The numeric code works on IEEE-754 doubles.  Values are modelled as     *)
(* exact rationals <<numerator, denominator>>; a well-conditioned result   *)
(* is represented by the exact value it approximates.  What rounding can   *)
(* change qualitatively is whether np.linalg.inv notices that a matrix is  *)
(* singular: LAPACK raises only on a pivot that is exactly 0.0.  inv       *)
(* therefore tracks which entries of the elimination are known exactly and *)
(* leaves the outcome open (LinAlgError, or an unusable inverse) when the  *)
(* zero pivot rests on rounded entries.                                    *)
(***************************************************************************)
EXTENDS Integers, Sequences, FiniteSets, TLC

VARIABLES G, pc, call, lv, ret

vars == <<G, pc, call, lv, ret>>

\* Bounds of the explored inputs.
MaxNodes == 2
MaxEdges == 3
MaxWeight == 2

None == "None"

-----------------------------------------------------------------------------
(* Floating-point values as rationals.  A denominator of 0 marks a value   *)
(* that is not specified: <<0, 0>> is nan, <<k, 0>> with k > 0 is the k-th  *)
(* entry of an unusable solve.                                             *)

RECURSIVE GCD(_, _)
GCD(a, b) == IF b = 0 THEN a ELSE GCD(b, a % b)

Abs(x) == IF x < 0 THEN -x ELSE x

Rat(n, d) ==
    LET g == GCD(Abs(n), Abs(d))
        s == IF d < 0 THEN -1 ELSE 1
    IN  <<(s * n) \div g, (s * d) \div g>>

Zero == <<0, 1>>
One == <<1, 1>>
NaN == <<0, 0>>
Garbage(k) == <<k, 0>>

IsSpecified(q) == q[2] # 0

RAdd(a, b) ==
    IF IsSpecified(a) /\ IsSpecified(b)
    THEN Rat(a[1] * b[2] + b[1] * a[2], a[2] * b[2])
    ELSE NaN

\* x - x is 0.0 for every finite double x, also one whose value is not specified.
RSub(a, b) ==
    IF IsSpecified(a) /\ IsSpecified(b)
    THEN Rat(a[1] * b[2] - b[1] * a[2], a[2] * b[2])
    ELSE IF a = b /\ a # NaN THEN Zero ELSE NaN

RMul(a, b) ==
    IF IsSpecified(a) /\ IsSpecified(b)
    THEN Rat(a[1] * b[1], a[2] * b[2])
    ELSE NaN

RDiv(a, b) ==
    IF IsSpecified(a) /\ IsSpecified(b) /\ b[1] # 0
    THEN Rat(a[1] * b[2], a[2] * b[1])
    ELSE NaN

RAbsLess(a, b) == Abs(a[1]) * b[2] < Abs(b[1]) * a[2]

RECURSIVE IsPow2(_)
IsPow2(d) == IF d = 1 THEN TRUE ELSE IF d % 2 # 0 THEN FALSE ELSE IsPow2(d \div 2)

\* A quotient of small integers is a double exactly when its denominator is a
\* power of two; a correctly rounded operation returns such a result exactly.
IsDyadic(q) == IsSpecified(q) /\ IsPow2(q[2])

RECURSIVE RSumSeq(_)
RSumSeq(s) == IF s = <<>> THEN Zero ELSE RAdd(Head(s), RSumSeq(Tail(s)))

RECURSIVE SumSeq(_)
SumSeq(s) == IF s = <<>> THEN 0 ELSE Head(s) + SumSeq(Tail(s))

Min(S) == CHOOSE x \in S : \A y \in S : x <= y

-----------------------------------------------------------------------------
(* The graph: nodes 0 .. n-1 in insertion order, w maps each edge <<u, v>>  *)
(* (u the source, v the target) to its weight.                             *)

Nodes(g) == 0 .. (g.n - 1)
Edges(g) == DOMAIN g.w
NodeList(g) == [k \in 1 .. g.n |-> k - 1]

\* G.out_degree in the place of G.in_degree.
out_degree(g, v) == Cardinality({e \in Edges(g) : e[1] = v})

\* G.in_degree: the number of edges into v.
in_degree(g, v) == Cardinality({e \in Edges(g) : e[2] = v})

\* nx.adjacency_matrix(G, weight): row u, column v holds the weight of u -> v.
adjacency_matrix(g) ==
    [r \in 1 .. g.n |-> [c \in 1 .. g.n |->
        IF <<r - 1, c - 1>> \in Edges(g) THEN g.w[<<r - 1, c - 1>>] ELSE 0]]

\* .T
Transpose(m, n) == [r \in 1 .. n |-> [c \in 1 .. n |-> m[c][r]]]

\* @not_implemented_for('undirected')
not_implemented_for_undirected(g) == ~g.directed

-----------------------------------------------------------------------------
(* np.linalg.inv                                                           *)

SwapRows(m, i, j) ==
    [r \in DOMAIN m |-> IF r = i THEN m[j] ELSE IF r = j THEN m[i] ELSE m[r]]

\* The first row, among rows, whose entry in column k is largest in magnitude
\* (LAPACK's partial pivoting).
PivotRow(m, rows, k) ==
    Min({i \in rows : \A j \in rows : ~RAbsLess(m[i][k], m[j][k])})

\* Gauss-Jordan elimination of the augmented matrix [m | I] in exact
\* arithmetic: the value the computed inverse approximates.  In exact
\* arithmetic the inverse does not depend on the choice of pivot, so the
\* first nonzero entry is taken.
RECURSIVE GaussJordan(_, _, _)
GaussJordan(m, k, n) ==
    IF k > n
    THEN [singular |-> FALSE,
          inverse |-> [r \in 1 .. n |-> [c \in 1 .. n |-> m[r][n + c]]]]
    ELSE LET cand == {i \in k .. n : m[i][k] # Zero}
         IN  IF cand = {}
             THEN [singular |-> TRUE, inverse |-> <<>>]
             ELSE LET m1 == SwapRows(m, k, Min(cand))
                      pv == m1[k][k]
                      rowk == IF pv = One THEN m1[k]
                              ELSE [c \in 1 .. 2 * n |->
                                      IF m1[k][c] = Zero THEN Zero ELSE RDiv(m1[k][c], pv)]
                      m2 == [r \in 1 .. n |->
                                IF r = k THEN rowk
                                ELSE IF m1[r][k] = Zero THEN m1[r]
                                ELSE [c \in 1 .. 2 * n |->
                                        IF rowk[c] = Zero THEN m1[r][c]
                                        ELSE RSub(m1[r][c], RMul(m1[r][k], rowk[c]))]]
                  IN  GaussJordan(m2, k + 1, n)

ExactInverse(m, n) ==
    GaussJordan([r \in 1 .. n |-> [c \in 1 .. 2 * n |->
                    IF c <= n THEN m[r][c]
                    ELSE IF c - n = r THEN One ELSE Zero]], 1, n)

(* The LU factorisation as the doubles see it.  An entry is <<q, exact>>:  *)
(* exact means the double equals q; otherwise the double is some rounded   *)
(* or perturbed value.  A row whose entry in the pivot column is exactly 0 *)
(* is left untouched by the step.  When the pivot column holds an entry    *)
(* that is not exact, the rows taking part are known only up to rounding   *)
(* from there on, except in the columns where all of them are exactly 0.   *)
(* The result is TRUE when some step finds every candidate pivot exactly   *)
(* 0.0, which is when LAPACK reports a singular matrix on every build.     *)
IsExactZero(e) == e[2] /\ e[1] = Zero

Rounded == <<Zero, FALSE>>

RECURSIVE ExactZeroPivot(_, _, _)
ExactZeroPivot(m, k, n) ==
    IF k > n THEN FALSE
    ELSE LET nz == {i \in k .. n : ~IsExactZero(m[i][k])}
         IN  IF nz = {} THEN TRUE
             ELSE IF \E i \in nz : ~m[i][k][2]
             THEN LET cols == {j \in (k + 1) .. n : \E i \in nz : ~IsExactZero(m[i][j])}
                      m1 == [r \in 1 .. n |-> [c \in 1 .. n |->
                                IF r \in nz /\ c \in cols THEN Rounded ELSE m[r][c]]]
                  IN  ExactZeroPivot(SwapRows(m1, k, Min(nz)), k + 1, n)
             ELSE LET m1 == SwapRows(m, k, PivotRow([r \in 1 .. n |-> [c \in 1 .. n |-> m[r][c][1]]], nz, k))
                      pv == m1[k][k][1]
                      lexact == IsDyadic(RDiv(One, pv))
                      m2 == [r \in 1 .. n |->
                                IF r <= k \/ IsExactZero(m1[r][k]) THEN m1[r]
                                ELSE LET l == RDiv(m1[r][k][1], pv)
                                     IN  [c \in 1 .. n |->
                                            IF c <= k \/ IsExactZero(m1[k][c]) THEN m1[r][c]
                                            ELSE <<RSub(m1[r][c][1], RMul(l, m1[k][c][1])),
                                                   m1[r][c][2] /\ lexact /\ m1[k][c][2]>>]]
                  IN  ExactZeroPivot(m2, k + 1, n)

\* LAPACK's solve of a matrix with at least one row: the set of outcomes.
\* raised: LinAlgError.  ill: no error although m is singular; the returned
\* entries are not specified.
Solve(m, n) ==
    LET exact == ExactInverse([r \in 1 .. n |-> [c \in 1 .. n |-> m[r][c][1]]], n)
    IN  IF ~exact.singular
        THEN {[raised |-> FALSE, ill |-> FALSE, n |-> exact.inverse]}
        ELSE IF ExactZeroPivot(m, 1, n)
        THEN {[raised |-> TRUE, ill |-> FALSE, n |-> <<>>]}
        ELSE {[raised |-> TRUE, ill |-> FALSE, n |-> <<>>],
              [raised |-> FALSE, ill |-> TRUE, n |-> <<>>]}

inv_RejectsEmpty(m, n) ==
    IF n = 0 THEN {[raised |-> TRUE, ill |-> FALSE, n |-> <<>>]} ELSE Solve(m, n)

\* np.linalg.inv(m) for the n x n matrix m of entries <<q, exact>>.  A 0 x 0
\* matrix has a 0 x 0 inverse.
inv(m, n) ==
    IF n = 0 THEN {[raised |-> FALSE, ill |-> FALSE, n |-> <<>>]} ELSE Solve(m, n)

-----------------------------------------------------------------------------
(* trophic_levels                                                          *)

\* rowsum = np.sum(a, axis=1)
RowSum(a, n) == [r \in 1 .. n |-> SumSeq(a[r])]

\* The positions selected by the mask rowsum != 0, in order.
Kept(rowsum, n) == SelectSeq([k \in 1 .. n |-> k], LAMBDA k : rowsum[k] # 0)

\* p = a[rowsum != 0][:, rowsum != 0] / rowsum[rowsum != 0][:, np.newaxis]
\* with each quotient marked exact when it is a double.
Normalised(a, rowsum, kept) ==
    [r \in 1 .. Len(kept) |-> [c \in 1 .. Len(kept) |->
        LET q == Rat(a[kept[r]][kept[c]], rowsum[kept[r]])
        IN  <<q, IsDyadic(q)>>]]

\* i - p, with i = np.eye(nn)
IMinusP(p, nn) ==
    [r \in 1 .. nn |-> [c \in 1 .. nn |->
        <<RSub(IF r = c THEN One ELSE Zero, p[r][c][1]), p[r][c][2]>>]]

\* y = n.sum(axis=1) + 1
SolvedLevels(o, nn) ==
    [r \in 1 .. nn |-> IF o.ill THEN Garbage(r) ELSE RAdd(RSumSeq(o.n[r]), One)]

zero_node_ids(g) == SelectSeq(NodeList(g), LAMBDA v : in_degree(g, v) = 0)
nonzero_node_ids(g) == SelectSeq(NodeList(g), LAMBDA v : in_degree(g, v) # 0)

IndexOf(s, v) == CHOOSE i \in 1 .. Len(s) : s[i] = v

AssembleLevels_ZeroBased(g, y) ==
    LET nonzero == nonzero_node_ids(g)
    IN  IF Len(nonzero) > Len(y)
        THEN [status |-> "IndexError", value |-> None]
        ELSE [status |-> "ok",
              value |-> [v \in Nodes(g) |->
                            IF in_degree(g, v) = 0 THEN Zero
                            ELSE y[IndexOf(nonzero, v)]]]

\* The two loops that fill the levels dict; y[i] beyond the end of y raises
\* IndexError.
AssembleLevels(g, y) ==
    LET nonzero == nonzero_node_ids(g)
    IN  IF Len(nonzero) > Len(y)
        THEN [status |-> "IndexError", value |-> None]
        ELSE [status |-> "ok",
              value |-> [v \in Nodes(g) |->
                            IF in_degree(g, v) = 0 THEN One
                            ELSE y[IndexOf(nonzero, v)]]]

\* The body of trophic_levels: the set of possible outcomes, each with the
\* steps taken.
trophic_levels_body(g) ==
    LET a == Transpose(adjacency_matrix(g), g.n)
        rowsum == RowSum(a, g.n)
        kept == Kept(rowsum, g.n)
        nn == Len(kept)
        p == Normalised(a, rowsum, kept)
    IN  {IF o.raised
         THEN [status |-> "LinAlgError", value |-> None,
               steps |-> <<"adjacency_matrix", "inv">>]
         ELSE LET r == AssembleLevels(g, SolvedLevels(o, nn))
              IN  [status |-> r.status, value |-> r.value,
                   steps |-> <<"adjacency_matrix", "inv">>]
         : o \in inv(IMinusP(p, nn), nn)}

trophic_levels_Undecorated(g) == trophic_levels_body(g)

\* trophic_levels(G) behind @not_implemented_for('undirected').
trophic_levels(g) ==
    IF not_implemented_for_undirected(g)
    THEN {[status |-> "NetworkXNotImplemented", value |-> None, steps |-> <<>>]}
    ELSE trophic_levels_body(g)

-----------------------------------------------------------------------------
(* trophic_differences and trophic_coherence                               *)

trophic_differences_Swapped(g, levels) ==
    [e \in Edges(g) |-> RSub(levels[e[1]], levels[e[2]])]

\* difference[(j, i)] = levels[i] - levels[j] for every edge j -> i.
trophic_differences(g, levels) ==
    [e \in Edges(g) |-> RSub(levels[e[2]], levels[e[1]])]

SelfLoops(g) == {e \in Edges(g) : e[1] = e[2]}

RECURSIVE SumOver(_, _)
SumOver(f, S) ==
    IF S = {} THEN Zero
    ELSE LET e == CHOOSE x \in S : TRUE
         IN  RAdd(f[e], SumOver(f, S \ {e}))

\* The population variance of the values f takes on S; nan when S is empty.
Variance(f, S) ==
    IF S = {} THEN NaN
    ELSE LET k == <<Cardinality(S), 1>>
             mean == RDiv(SumOver(f, S), k)
             sq == [e \in S |-> LET d == RSub(f[e], mean) IN RMul(d, d)]
         IN  RDiv(SumOver(sq, S), k)

\* The population standard deviation, held as the square root of a rational.
StdDev(f, S) == [sqrt_of |-> Variance(f, S)]

\* Differences of all edges, self-loop entries discarded unless cannibalism,
\* then the standard deviation of what remains.
trophic_coherence(g, levels, cannibalism) ==
    LET diffs == trophic_differences(g, levels)
        used == IF cannibalism THEN Edges(g) ELSE Edges(g) \ SelfLoops(g)
    IN  StdDev(diffs, used)

-----------------------------------------------------------------------------
(* Input graphs                                                            *)

Pairs(n) == (0 .. (n - 1)) \X (0 .. (n - 1))

Graph(directed, n, w) == [directed |-> directed, n |-> n, w |-> w]

\* nx.Graph holds every edge in both directions with one weight.
Symmetric(w) ==
    [e \in DOMAIN w \cup {<<x[2], x[1]>> : x \in DOMAIN w} |->
        IF e \in DOMAIN w THEN w[e] ELSE w[<<e[2], e[1]>>]]

\* An nx.DiGraph, or an nx.Graph, of at most MaxNodes nodes and MaxEdges
\* edges, each edge with a weight in 0 .. MaxWeight.
IsInputGraph(g) ==
    \E n \in 0 .. MaxNodes : \E E \in SUBSET Pairs(n) :
        /\ Cardinality(E) <= MaxEdges
        /\ \E w \in [E -> 0 .. MaxWeight] :
            \/ g = Graph(TRUE, n, w)
            \/ /\ \A e \in E : e[1] <= e[2]
               /\ g = Graph(FALSE, n, Symmetric(w))

\* nx.from_numpy_matrix(m, create_using=nx.DiGraph): an edge r -> c of weight
\* m[r][c] for every nonzero entry.
from_numpy_matrix(m) ==
    Graph(TRUE, Len(m),
          [e \in {x \in Pairs(Len(m)) : m[x[1] + 1][x[2] + 1] # 0} |->
              m[e[1] + 1][e[2] + 1]])

\* The graphs of test_trophic.py.
TestChain == Graph(TRUE, 3, (<<0, 1>> :> 1) @@ (<<1, 2>> :> 1))
TestSimple == from_numpy_matrix(<<<<0, 0>>, <<1, 0>>>>)
TestPath4 ==
    from_numpy_matrix(<<<<0, 1, 0, 0>>, <<0, 0, 1, 0>>, <<0, 0, 0, 1>>, <<0, 0, 0, 0>>>>)
TestMatrixB ==
    from_numpy_matrix(<<<<0, 1, 1, 0>>, <<0, 0, 1, 1>>, <<0, 0, 0, 1>>, <<0, 0, 0, 0>>>>)
TestMatrixC ==
    from_numpy_matrix(<<<<0, 1, 1, 0>>, <<0, 1, 1, 1>>, <<0, 0, 0, 1>>, <<0, 0, 0, 1>>>>)
TestBigger ==
    from_numpy_matrix(<<<<0, 0, 0, 0, 0>>, <<0, 1, 0, 1, 0>>, <<1, 0, 0, 0, 0>>,
                        <<0, 1, 0, 0, 0>>, <<0, 0, 0, 1, 0>>>>)
TestIdentity4 ==
    from_numpy_matrix(<<<<1, 0, 0, 0>>, <<0, 1, 0, 0>>, <<0, 0, 1, 0>>, <<0, 0, 0, 1>>>>)
TestDifferences == from_numpy_matrix(<<<<0, 1>>, <<0, 0>>>>)

TestGraphs ==
    {TestChain, TestSimple, TestPath4, TestMatrixB, TestMatrixC, TestBigger,
     TestIdentity4, TestDifferences}

-----------------------------------------------------------------------------
(* One call of the public API on a graph.                                  *)

NoCall == [fn |-> "none", cannibalism |-> FALSE]
NoResult == [status |-> "none", value |-> None]
NoLevels == [status |-> "none", value |-> None, steps |-> <<>>]

Init ==
    /\ \/ IsInputGraph(G)
       \/ G \in TestGraphs
    /\ pc = "ready"
    /\ call = NoCall
    /\ lv = NoLevels
    /\ ret = NoResult

\* nx.trophic_levels(G)
TrophicLevels ==
    /\ pc = "ready"
    /\ \E o \in trophic_levels(G) :
        /\ lv' = o
        /\ ret' = [status |-> o.status, value |-> o.value]
    /\ call' = [fn |-> "trophic_levels", cannibalism |-> FALSE]
    /\ pc' = "done"
    /\ UNCHANGED G

\* nx.trophic_differences(G)
TrophicDifferences ==
    /\ pc = "ready"
    /\ \E o \in trophic_levels(G) :
        /\ lv' = o
        /\ ret' = IF o.status = "ok"
                  THEN [status |-> "ok", value |-> trophic_differences(G, o.value)]
                  ELSE [status |-> o.status, value |-> None]
    /\ call' = [fn |-> "trophic_differences", cannibalism |-> FALSE]
    /\ pc' = "done"
    /\ UNCHANGED G

\* nx.trophic_coherence(G, cannibalism=c)
TrophicCoherence ==
    /\ pc = "ready"
    /\ \E o \in trophic_levels(G) : \E c \in BOOLEAN :
        /\ call' = [fn |-> "trophic_coherence", cannibalism |-> c]
        /\ lv' = o
        /\ ret' = IF o.status = "ok"
                  THEN [status |-> "ok", value |-> trophic_coherence(G, o.value, c)]
                  ELSE [status |-> o.status, value |-> None]
    /\ pc' = "done"
    /\ UNCHANGED G

Next == TrophicCoherence \/ TrophicLevels \/ TrophicDifferences

Spec == Init /\ [][Next]_vars

-----------------------------------------------------------------------------
(* Properties                                                              *)

Returned(fn) == pc = "done" /\ call.fn = fn

PositiveWeights(g) == \A e \in Edges(g) : g.w[e] > 0

InEdges(g, i) == {e \in Edges(g) : e[2] = i}

\* k_in[i]: the sum of the weights of the edges into i.
RECURSIVE WeightSum(_, _)
WeightSum(g, S) ==
    IF S = {} THEN 0
    ELSE LET e == CHOOSE x \in S : TRUE IN g.w[e] + WeightSum(g, S \ {e})

KIn(g, i) == WeightSum(g, InEdges(g, i))

\* 1 + (1 / k_in[i]) * sum over the in-neighbours j of a[i][j] * s[j]
RecurrenceValue(g, s, i) ==
    RAdd(One, RDiv(SumOver([e \in InEdges(g, i) |-> RMul(<<g.w[e], 1>>, s[e[1]])],
                           InEdges(g, i)),
                   <<KIn(g, i), 1>>))

SatisfiesRecurrence(g, s) ==
    \A i \in Nodes(g) :
        in_degree(g, i) # 0 => IsSpecified(s[i]) /\ s[i] = RecurrenceValue(g, s, i)

Basal(g) == {v \in Nodes(g) : in_degree(g, v) = 0}

\* The nodes some directed path from a basal node leads to.
RECURSIVE ReachableFrom(_, _)
ReachableFrom(g, S) ==
    LET T == S \cup {e[2] : e \in {x \in Edges(g) : x[1] \in S}}
    IN  IF T = S THEN S ELSE ReachableFrom(g, T)

Unanchored(g) == Nodes(g) \ ReachableFrom(g, Basal(g))

WithoutSelfLoops(g) ==
    Graph(g.directed, g.n, [e \in Edges(g) \ SelfLoops(g) |-> g.w[e]])

\* The node ids of the rows kept in the solved matrix.
KeptNodes(g) ==
    LET a == Transpose(adjacency_matrix(g), g.n)
        kept == Kept(RowSum(a, g.n), g.n)
    IN  [k \in 1 .. Len(kept) |-> kept[k] - 1]

\* C1: on a directed graph with positive weights, the levels trophic_levels
\* returns satisfy s[i] = 1 + (1/k_in[i]) * sum_j a[i][j] * s[j] at every node
\* with an incoming edge.
C1_Recurrence ==
    (Returned("trophic_levels") /\ G.directed /\ PositiveWeights(G) /\ ret.status = "ok")
        => SatisfiesRecurrence(G, ret.value)

\* C2: every node with in-degree 0 has level exactly 1 in the returned mapping.
C2_BasalLevelOne ==
    (Returned("trophic_levels") /\ ret.status = "ok")
        => \A v \in Nodes(G) : in_degree(G, v) = 0 => ret.value[v] = One

C2_Witness ==
    /\ Returned("trophic_levels") /\ ret.status = "ok"
    /\ \E v \in Nodes(G) : in_degree(G, v) = 0
    /\ \E v \in Nodes(G) : in_degree(G, v) # 0 /\ ret.value[v] # One

\* C3: on a non-empty directed graph (positive weights) in which every node has
\* nonzero in-degree, trophic_levels fails with LinAlgError and returns nothing.
C3_NoBasalRaises ==
    (/\ Returned("trophic_levels") /\ G.directed /\ G.n >= 1 /\ PositiveWeights(G)
     /\ \A v \in Nodes(G) : in_degree(G, v) # 0)
        => ret.status = "LinAlgError" /\ ret.value = None

\* C4: on an undirected graph trophic_levels fails with NetworkXNotImplemented,
\* not with LinAlgError, before the adjacency matrix is built or a solve is
\* attempted, whatever the structure of the graph.
C4_UndirectedFailsFast ==
    (Returned("trophic_levels") /\ ~G.directed)
        => /\ ret.status = "NetworkXNotImplemented"
           /\ ret.status # "LinAlgError"
           /\ ret.value = None
           /\ lv.steps = <<>>

C4_Witness ==
    /\ Returned("trophic_levels") /\ ~G.directed /\ G.n >= 1
    /\ \A v \in Nodes(G) : <<v, v>> \in Edges(G) /\ G.w[<<v, v>>] > 0
    /\ \E o \in trophic_levels_body(G) : o.status = "LinAlgError"

\* C5 as stated: the 2-node graph whose only edge is 0 -> 1 (unit weight) gets
\* levels {0: 2, 1: 1}.
C5_Original ==
    (Returned("trophic_levels") /\ G = Graph(TRUE, 2, <<0, 1>> :> 1))
        => ret.status = "ok" /\ ret.value = (0 :> <<2, 1>> @@ 1 :> One)

\* C5 amended: the 2-node graph whose only edge is 1 -> 0 (unit weight) gets
\* levels {0: 2, 1: 1}, and the one whose only edge is 0 -> 1 gets {0: 1, 1: 2}.
C5_TargetAboveSource ==
    /\ (Returned("trophic_levels") /\ G = Graph(TRUE, 2, <<1, 0>> :> 1))
            => ret.status = "ok" /\ ret.value = (0 :> <<2, 1>> @@ 1 :> One)
    /\ (Returned("trophic_levels") /\ G = Graph(TRUE, 2, <<0, 1>> :> 1))
            => ret.status = "ok" /\ ret.value = (0 :> One @@ 1 :> <<2, 1>>)

C5_Witness ==
    /\ Returned("trophic_levels") /\ G = TestSimple
    /\ Edges(G) = {<<1, 0>>}
    /\ ret.status = "ok"

C6_WitnessEmpty ==
    Returned("trophic_levels") /\ G.directed /\ G.n = 0 /\ ret.status = "ok"

\* C7: trophic_differences returns one entry per edge (source, target), equal to
\* levels[target] - levels[source] for the levels lv that its call of
\* trophic_levels on the same graph returned, and 0 for every self-loop.
C7_Differences ==
    (Returned("trophic_differences") /\ ret.status = "ok")
        => /\ lv.status = "ok" /\ DOMAIN lv.value = Nodes(G)
           /\ DOMAIN ret.value = Edges(G)
           /\ \A e \in Edges(G) :
                /\ ret.value[e] = RSub(lv.value[e[2]], lv.value[e[1]])
                /\ e[1] = e[2] => ret.value[e] = Zero

C7_Witness ==
    /\ Returned("trophic_differences") /\ ret.status = "ok"
    /\ \E e \in Edges(G) : e[1] = e[2]
    /\ \E e \in Edges(G) : e[1] # e[2] /\ ret.value[e] # Zero /\ IsSpecified(ret.value[e])

\* C8: on a directed graph with positive weights in which every node can be
\* reached from a basal node, trophic_coherence(G, cannibalism=False) is what
\* trophic_coherence gives on G with its self-loops deleted.
C8_SelfLoopsIgnored ==
    (/\ Returned("trophic_coherence") /\ ~call.cannibalism /\ G.directed
     /\ PositiveWeights(G) /\ Unanchored(G) = {})
        => \E o \in trophic_levels(WithoutSelfLoops(G)) :
              /\ o.status = ret.status
              /\ o.status = "ok" =>
                    ret.value = trophic_coherence(WithoutSelfLoops(G), o.value, TRUE)

\* C9: on a non-empty directed graph with positive weights, trophic_levels fails
\* with LinAlgError exactly when some node cannot be reached from a basal node.
C9_SingularIffUnanchored ==
    (Returned("trophic_levels") /\ G.directed /\ G.n >= 1 /\ PositiveWeights(G))
        => (ret.status = "LinAlgError" <=> Unanchored(G) # {})

\* C10: with weights >= 0 the rows kept in the solved matrix (k_in != 0) are the
\* nodes given a solved value (in_degree != 0), in the same order, a node gets
\* level 1 iff k_in = 0, and the result holds one level for every node.
C10_ClassificationsAgree ==
    (Returned("trophic_levels") /\ G.directed /\ \A e \in Edges(G) : G.w[e] >= 0)
        => /\ KeptNodes(G) = nonzero_node_ids(G)
           /\ ret.status \in {"ok", "LinAlgError"}
           /\ ret.status = "ok" =>
                /\ DOMAIN ret.value = Nodes(G)
                /\ \A v \in Nodes(G) : ret.value[v] = One <=> KIn(G, v) = 0

====
